---- MODULE Spec2Model ----
(***************************************************************************)
(* A model of the Indic PDF translator: translator.py (get_fasttext_model, *)
(* tess_lang, detect_language, translate, process_pdf) and the part of     *)
(* app.py that calls process_pdf and reports its outcome.                  *)
(*                                                                         *)
(* Texts are sequences of characters, so that str.strip() is computed and  *)
(* not assumed.  The external collaborators (PDF library, OCR engine,      *)
(* language model, remote translation service, file system, network) are   *)
(* inputs of the actions, drawn from small sets: what they answer is not   *)
(* decided by this repository's code.                                      *)
(***************************************************************************)
EXTENDS Integers, Sequences, FiniteSets, TLC

\* ------------------------------------------------------------------
\* Bounds and input sets
\* ------------------------------------------------------------------
\* Largest number of pages of an input document.
MaxPages == 2

\* Number of invocations that call get_fasttext_model concurrently (SpecConc).
NumThreads == 2

\* The whitespace character of the texts; the other characters are glyphs.
WS == " "

\* The pages an input document is made of: a native page, a native page whose
\* text begins with whitespace and that embeds an image, a scanned page (an
\* image, an empty text layer) and a page whose text layer is only whitespace.
Pages ==
  { [text |-> <<"a">>,     rect |-> "A4",     images |-> 0],
    [text |-> <<WS, "b">>, rect |-> "A5",     images |-> 1],
    [text |-> <<>>,        rect |-> "A4",     images |-> 1],
    [text |-> <<WS>>,      rect |-> "Letter", images |-> 0] }

\* Texts the OCR engine can recognize on a page.
OcrTexts == { <<>>, <<WS>>, <<"a">> }

\* The translated text the remote service answers with on success.
RespTexts == { <<"x">> }

\* Raw labels the language model predicts ("none": no label predicted).
Labels == { "hi", "ur", "en" }

\* Outcomes of the weight-file download: requests.get raises, answers the
\* weight file, or answers a body that is not a loadable model.
Downloads == { "ok", "neterr", "badbody" }

\* The remote service's answers to the POST of translate.
Responses ==
  [kind : {"neterr", "http_error", "not_json", "no_field"}, translatedText : {<<>>}]
    \cup [kind : {"ok"}, translatedText : RespTexts]

\* ------------------------------------------------------------------
\* State
\* ------------------------------------------------------------------
VARIABLES
  doc,              \* the input document: a sequence of pages
  target_arg,       \* the target_lang app.py passes ("None" for None)
  target_lang,      \* process_pdf's local target_lang
  pc,               \* position of the run in app.py / process_pdf
  i,                \* index of the next page of the running loop
  all_texts,        \* process_pdf's all_texts
  detected_lang,    \* process_pdf's detected_lang
  translated_pages, \* process_pdf's translated_pages
  out,              \* the output document being built
  dst_file,         \* the file at dst_path: "absent", "partial", "complete"
  ui,               \* what the Streamlit page shows, in order
  err,              \* the exception propagating out of process_pdf ("" if none)
  model_file,       \* FASTTEXT_MODEL on disk: "absent", "good", "corrupt", "writing"
  nDownloads,       \* number of times the weight file has been written
  nLoads,           \* number of fasttext.load_model calls
  reqLog,           \* the remote requests issued, in order
  ev,               \* the calls made by the last step, in order
  call,             \* the last step's translate call (NoCall if none)
  tpc,              \* SpecConc: position of each thread in get_fasttext_model
  loadedPartial     \* SpecConc: a thread loaded a file that was being written

vars == << doc, target_arg, target_lang, pc, i, all_texts, detected_lang, translated_pages,
           out, dst_file, ui, err, model_file, nDownloads, nLoads, reqLog, ev,
           call, tpc, loadedPartial >>

Threads == 1..NumThreads

NoCall == [text |-> <<>>, source |-> "", target |-> "", resp |-> "none",
           result |-> <<>>, requests |-> 0, raised |-> FALSE]

\* ------------------------------------------------------------------
\* str.strip() and the truth value of a string
\* ------------------------------------------------------------------
RECURSIVE LStrip(_)
LStrip(t) == IF t # <<>> /\ Head(t) = WS THEN LStrip(Tail(t)) ELSE t

RECURSIVE RStrip(_)
RStrip(t) ==
  IF t # <<>> /\ t[Len(t)] = WS THEN RStrip(SubSeq(t, 1, Len(t) - 1)) ELSE t

Strip(t) == RStrip(LStrip(t))

\* bool(s) of a Python string
Truthy(t) == t # <<>>

\* ------------------------------------------------------------------
\* Helpers of translator.py
\* ------------------------------------------------------------------
Ev(op, page, arg) == [op |-> op, page |-> page, arg |-> arg]

\* get_fasttext_model with the outcome dl of the download (used only when the
\* weight file is absent) and ld of fasttext.load_model on an intact file.
\* Nothing is cached: every call ends in load_model.
get_fasttext_model(file, dl, ld) ==
  IF file = "absent" /\ dl = "neterr"
    THEN [raised |-> TRUE, model_file |-> file, downloads |-> 0, loads |-> 0]
    ELSE LET written == file = "absent"
             after   == IF written
                          THEN (IF dl = "ok" THEN "good" ELSE "corrupt")
                          ELSE file
         IN  [raised     |-> (after # "good" \/ ~ld),
              model_file |-> after,
              downloads  |-> IF written THEN 1 ELSE 0,
              loads      |-> 1]

\* The mapping table of tess_lang.
mapping ==
  [Hindi |-> "Devanagari", Bengali |-> "Bengali", Tamil |-> "Tamil",
   Telugu |-> "Telugu", Marathi |-> "Devanagari", Gujarati |-> "Gujarati",
   Kannada |-> "Kannada", Malayalam |-> "Malayalam", Odia |-> "Oriya",
   Punjabi |-> "Gurmukhi", Assamese |-> "Bengali", Urdu |-> "Arabic",
   Sanskrit |-> "Devanagari", Nepali |-> "Devanagari",
   Konkani |-> "Devanagari", Bodo |-> "Devanagari", Dogri |-> "Devanagari",
   Maithili |-> "Devanagari", Manipuri |-> "Bengali", Santhali |-> "Bengali",
   Sindhi |-> "Arabic", Kashmiri |-> "Arabic"]

tess_lang_raw(lang_code) == lang_code

tess_lang(lang_code) ==
  IF lang_code \in DOMAIN mapping THEN mapping[lang_code] ELSE "Devanagari"

\* lang_codes.json, the table detect_language reads: fastText code -> name.
code2lang == [hi |-> "Hindi", ur |-> "Urdu", en |-> "English"]

\* detect_language: load the model, predict the top label of the joined
\* texts (label; "none" when the model predicts no label, so that pred[0][0]
\* raises), map the label through code2lang, unknown labels passing through.
\* The label the model predicts does not depend on this repository's code, so
\* the joined text is not carried further than the call.
detect_language(texts, file, dl, ld, label) ==
  LET m == get_fasttext_model(file, dl, ld)
  IN  [raised     |-> (m.raised \/ label = "none"),
       lang       |-> IF label \in DOMAIN code2lang THEN code2lang[label] ELSE label,
       model_file |-> m.model_file,
       downloads  |-> m.downloads,
       loads      |-> m.loads]

\* A failed remote request: requests.post raises, raise_for_status raises,
\* r.json() raises, or the body has no "translatedText".
RequestFails(resp) == resp.kind # "ok"

translate_nostrip(text, source, target, resp) ==
  IF source = target \/ ~Truthy(text)
    THEN [result |-> text, requests |-> 0, raised |-> FALSE]
    ELSE IF RequestFails(resp)
           THEN [result |-> text, requests |-> 1, raised |-> FALSE]
           ELSE [result |-> resp.translatedText, requests |-> 1, raised |-> FALSE]

translate_propagates(text, source, target, resp) ==
  IF source = target \/ ~Truthy(Strip(text))
    THEN [result |-> text, requests |-> 0, raised |-> FALSE]
    ELSE IF RequestFails(resp)
           THEN [result |-> text, requests |-> 1, raised |-> resp.kind = "no_field"]
           ELSE [result |-> resp.translatedText, requests |-> 1, raised |-> FALSE]

translate_empty_fallback(text, source, target, resp) ==
  IF source = target \/ ~Truthy(Strip(text))
    THEN [result |-> text, requests |-> 0, raised |-> FALSE]
    ELSE IF RequestFails(resp)
           THEN [result |-> <<>>, requests |-> 1, raised |-> FALSE]
           ELSE [result |-> resp.translatedText, requests |-> 1, raised |-> FALSE]

translate_retry(text, source, target, resp) ==
  IF source = target \/ ~Truthy(Strip(text))
    THEN [result |-> text, requests |-> 0, raised |-> FALSE]
    ELSE IF RequestFails(resp)
           THEN [result |-> text, requests |-> 2, raised |-> FALSE]
           ELSE [result |-> resp.translatedText, requests |-> 1, raised |-> FALSE]

\* translate: the text it returns, the number of remote requests it issues
\* and whether an exception leaves it.
translate(text, source, target, resp) ==
  IF source = target \/ ~Truthy(Strip(text))
    THEN [result |-> text, requests |-> 0, raised |-> FALSE]
    ELSE IF RequestFails(resp)
           THEN [result |-> text, requests |-> 1, raised |-> FALSE]
           ELSE [result |-> resp.translatedText, requests |-> 1, raised |-> FALSE]

\* ------------------------------------------------------------------
\* process_pdf, step 1: the text of one page (native or OCR)
\* ------------------------------------------------------------------
\* What the model's predict and the OCR engine can answer.
Predictions == Labels \cup {"none"}
OcrResults == [ok : {TRUE}, text : OcrTexts] \cup [ok : {FALSE}, text : {<<>>}]

ExtractResult(raised, e, text, events, d) ==
  [raised |-> raised, err |-> e, text |-> text, events |-> events,
   model_file |-> d.model_file, downloads |-> d.downloads, loads |-> d.loads]

NoModelUse(file) == [model_file |-> file, downloads |-> 0, loads |-> 0]

extract_always_detects(page, idx, file, render, dl, ld, label, ocr) ==
  LET d == detect_language(<<page.text>>, file, dl, ld, label)
  IN  ExtractResult(FALSE, "", IF Truthy(Strip(page.text)) THEN page.text ELSE ocr.text,
                    <<Ev("detect_language", idx, d.lang)>>, d)

\* The body of the loop over the pages (lines 105-120) for page number idx;
\* render tells whether get_pixmap and Image.open succeed.
extract(page, idx, file, render, dl, ld, label, ocr) ==
  IF Truthy(Strip(page.text))
    THEN ExtractResult(FALSE, "", page.text, <<>>, NoModelUse(file))
    ELSE IF ~render
      THEN ExtractResult(TRUE, "render", <<>>, <<>>, NoModelUse(file))
      ELSE LET d == detect_language(<<page.text>>, file, dl, ld, label)
               tess_lang_code == tess_lang(d.lang)
           IN  IF d.raised
                 THEN ExtractResult(TRUE, "language model", <<>>,
                                    <<Ev("detect_language", idx, "raised")>>, d)
                 ELSE ExtractResult(~ocr.ok, IF ocr.ok THEN "" ELSE "ocr", ocr.text,
                                    <<Ev("detect_language", idx, d.lang),
                                      Ev("tess_lang", idx, d.lang),
                                      Ev("ocr", idx, tess_lang_code)>>, d)

\* ------------------------------------------------------------------
\* process_pdf, step 3: the output page of one input page
\* ------------------------------------------------------------------
Min(a, b) == IF a <= b THEN a ELSE b

\* Number of pairs zip(doc, translated_pages) yields.
zip_len(d, tp) == Min(Len(d), Len(tp))

zip_pair_reversed(d, tp, idx) ==
  [page |-> d[idx], new_text |-> tp[Len(tp) - idx + 1]]

\* The idx-th pair of zip(doc, translated_pages).
zip_pair(d, tp, idx) == [page |-> d[idx], new_text |-> tp[idx]]

\* The page built from an original page and its new text (lines 132-157).
rebuild(page, new_text) ==
  [rect   |-> page.rect,
   text   |-> new_text,
   color  |-> IF Truthy(Strip(page.text)) THEN "default" ELSE "red",
   images |-> page.images]

\* ------------------------------------------------------------------
\* One run of app.py's "Translate PDF" button: process_pdf step by step
\* ------------------------------------------------------------------
Docs == UNION { [1..n -> Pages] : n \in 1..MaxPages }

\* The choices of the selectbox as app.py passes them on ("None": Auto-detect).
TargetLangs == { "None", "English", "Hindi" }

concVars == << tpc, loadedPartial >>

Init ==
  /\ doc \in Docs
  /\ target_arg \in TargetLangs
  /\ target_lang = target_arg
  /\ pc = "open"
  /\ i = 1
  /\ all_texts = <<>>
  /\ detected_lang = ""
  /\ translated_pages = <<>>
  /\ out = <<>>
  /\ dst_file = "absent"
  /\ ui = <<>>
  /\ err = ""
  /\ model_file \in {"absent", "good"}
  /\ nDownloads = 0
  /\ nLoads = 0
  /\ reqLog = <<>>
  /\ ev = <<>>
  /\ call = NoCall
  /\ tpc = [t \in Threads |-> "idle"]
  /\ loadedPartial = FALSE

\* line 101: fitz.open(src_path)
Open ==
  /\ pc = "open"
  /\ \E ok \in BOOLEAN :
       /\ pc' = IF ok THEN "extract" ELSE "raised"
       /\ err' = IF ok THEN "" ELSE "open"
  /\ i' = 1
  /\ ev' = <<>>
  /\ call' = NoCall
  /\ UNCHANGED << doc, target_arg, target_lang, all_texts, detected_lang, translated_pages,
                  out, dst_file, ui, model_file, nDownloads, nLoads, reqLog,
                  concVars >>

\* lines 105-120: one iteration of the loop that collects the texts
ExtractPage ==
  /\ pc = "extract"
  /\ i <= Len(doc)
  /\ \E render \in BOOLEAN, dl \in Downloads, ld \in BOOLEAN,
        label \in Predictions, ocr \in OcrResults :
       LET r == extract(doc[i], i, model_file, render, dl, ld, label, ocr)
       IN  /\ ev' = r.events
           /\ model_file' = r.model_file
           /\ nDownloads' = nDownloads + r.downloads
           /\ nLoads' = nLoads + r.loads
           /\ err' = r.err
           /\ all_texts' = IF r.raised THEN all_texts ELSE Append(all_texts, r.text)
           /\ pc' = IF r.raised THEN "raised"
                    ELSE IF i = Len(doc) THEN "detect" ELSE "extract"
           /\ i' = IF r.raised THEN i ELSE i + 1
  /\ call' = NoCall
  /\ UNCHANGED << doc, target_arg, target_lang, detected_lang, translated_pages, out,
                  dst_file, ui, reqLog, concVars >>

\* lines 122-124: the document's language and the effective target language
DetectDocument ==
  /\ pc = "detect"
  /\ \E dl \in Downloads, ld \in BOOLEAN, label \in Predictions :
       LET d == detect_language(all_texts, model_file, dl, ld, label)
       IN  /\ model_file' = d.model_file
           /\ nDownloads' = nDownloads + d.downloads
           /\ nLoads' = nLoads + d.loads
           /\ ev' = <<Ev("detect_language", 0, IF d.raised THEN "raised" ELSE d.lang)>>
           /\ err' = IF d.raised THEN "language model" ELSE ""
           /\ pc' = IF d.raised THEN "raised" ELSE "translate"
           /\ detected_lang' = IF d.raised THEN detected_lang ELSE d.lang
           /\ target_lang' = IF d.raised THEN target_lang
                             ELSE IF target_lang = "None" THEN "English"
                             ELSE target_lang
  /\ i' = 1
  /\ call' = NoCall
  /\ UNCHANGED << doc, target_arg, all_texts, translated_pages, out, dst_file,
                  ui, reqLog, concVars >>

RECURSIVE Requests(_, _, _)
Requests(n, page, failed) ==
  IF n = 0 THEN <<>>
  ELSE <<[page |-> page, failed |-> failed]>> \o Requests(n - 1, page, failed)

\* line 127: one element of the list comprehension
TranslatePage ==
  /\ pc = "translate"
  /\ i <= Len(all_texts)
  /\ \E resp \in Responses :
       LET r == translate(all_texts[i], detected_lang, target_lang, resp)
       IN  /\ call' = [text |-> all_texts[i], source |-> detected_lang,
                       target |-> target_lang, resp |-> resp.kind,
                       result |-> r.result, requests |-> r.requests,
                       raised |-> r.raised]
           /\ reqLog' = reqLog \o Requests(r.requests, i, RequestFails(resp))
           /\ translated_pages' = IF r.raised THEN translated_pages
                                  ELSE Append(translated_pages, r.result)
           /\ err' = IF r.raised THEN "translate" ELSE ""
           /\ pc' = IF r.raised THEN "raised"
                    ELSE IF i = Len(all_texts) THEN "reassemble" ELSE "translate"
           /\ i' = IF r.raised THEN i
                   ELSE IF i = Len(all_texts) THEN 1 ELSE i + 1
  /\ ev' = <<>>
  /\ UNCHANGED << doc, target_arg, target_lang, all_texts, detected_lang, out, dst_file, ui,
                  model_file, nDownloads, nLoads, concVars >>

\* lines 131-157: one iteration of the loop over zip(doc, translated_pages);
\* new_page, insert_text or insert_image may raise.
ReassemblePage ==
  /\ pc = "reassemble"
  /\ i <= zip_len(doc, translated_pages)
  /\ \E ok \in BOOLEAN :
       LET pair == zip_pair(doc, translated_pages, i)
       IN  /\ out' = IF ok THEN Append(out, rebuild(pair.page, pair.new_text)) ELSE out
           /\ err' = IF ok THEN "" ELSE "reassemble"
           /\ pc' = IF ~ok THEN "raised"
                    ELSE IF i = zip_len(doc, translated_pages) THEN "save"
                    ELSE "reassemble"
           /\ i' = IF ok THEN i + 1 ELSE i
  /\ ev' = <<>>
  /\ call' = NoCall
  /\ UNCHANGED << doc, target_arg, target_lang, all_texts, detected_lang, translated_pages,
                  dst_file, ui, model_file, nDownloads, nLoads, reqLog, concVars >>

\* What out.save(dst_path) can do: write the whole file, raise before the
\* file is created, or raise after it was created and partly written.
SaveOutcomes == { "ok", "fail_before_write", "fail_during_write" }

\* line 159: out.save(dst_path); process_pdf removes nothing when it raises
Save ==
  /\ pc = "save"
  /\ \E o \in SaveOutcomes :
       /\ dst_file' = CASE o = "ok" -> "complete"
                        [] o = "fail_before_write" -> dst_file
                        [] o = "fail_during_write" -> "partial"
       /\ err' = IF o = "ok" THEN "" ELSE "save"
       /\ pc' = IF o = "ok" THEN "returned" ELSE "raised"
  /\ ev' = <<>>
  /\ call' = NoCall
  /\ UNCHANGED << doc, target_arg, target_lang, i, all_texts, detected_lang,
                  translated_pages, out, ui, model_file, nDownloads, nLoads,
                  reqLog, concVars >>

\* app.py lines 75-82: st.success and the download button
ShowSuccess ==
  /\ pc = "returned"
  /\ ui' = ui \o <<"success", "download">>
  /\ pc' = "shown"
  /\ ev' = <<>>
  /\ call' = NoCall
  /\ UNCHANGED << doc, target_arg, target_lang, i, all_texts, detected_lang,
                  translated_pages, out, dst_file, err, model_file, nDownloads,
                  nLoads, reqLog, concVars >>

\* app.py lines 83-84: st.error(str(e))
ShowError ==
  /\ pc = "raised"
  /\ ui' = Append(ui, "error")
  /\ pc' = "shown"
  /\ ev' = <<>>
  /\ call' = NoCall
  /\ UNCHANGED << doc, target_arg, target_lang, i, all_texts, detected_lang,
                  translated_pages, out, dst_file, err, model_file, nDownloads,
                  nLoads, reqLog, concVars >>

\* app.py line 27: leaving the TemporaryDirectory block removes out_path
CloseTmpdir ==
  /\ pc = "shown"
  /\ dst_file' = "absent"
  /\ pc' = "closed"
  /\ ev' = <<>>
  /\ call' = NoCall
  /\ UNCHANGED << doc, target_arg, target_lang, i, all_texts, detected_lang,
                  translated_pages, out, ui, err, model_file, nDownloads,
                  nLoads, reqLog, concVars >>

Next ==
  \/ Open
  \/ ExtractPage
  \/ DetectDocument
  \/ TranslatePage
  \/ ReassemblePage
  \/ Save
  \/ ShowSuccess
  \/ ShowError
  \/ CloseTmpdir

Spec == Init /\ [][Next]_vars

\* ------------------------------------------------------------------
\* get_fasttext_model called by several invocations of one process at once
\* (Streamlit runs each session's script in a thread of the same process).
\* The function takes no lock: its steps interleave freely.
\* ------------------------------------------------------------------
seqVars == << doc, target_arg, target_lang, pc, i, all_texts, detected_lang,
              translated_pages, out, dst_file, ui, err, reqLog, ev, call >>

InitConc ==
  /\ doc = <<>>
  /\ target_arg = "None"
  /\ target_lang = "None"
  /\ pc = "concurrent"
  /\ i = 1
  /\ all_texts = <<>>
  /\ detected_lang = ""
  /\ translated_pages = <<>>
  /\ out = <<>>
  /\ dst_file = "absent"
  /\ ui = <<>>
  /\ err = ""
  /\ model_file \in {"absent", "good"}
  /\ nDownloads = 0
  /\ nLoads = 0
  /\ reqLog = <<>>
  /\ ev = <<>>
  /\ call = NoCall
  /\ tpc = [t \in Threads |-> "check"]
  /\ loadedPartial = FALSE

Writing(t) == tpc[t] \in {"writing_ok", "writing_bad"}

\* line 29: FASTTEXT_MODEL.exists()
ConcCheck(t) ==
  /\ tpc[t] = "check"
  /\ tpc' = [tpc EXCEPT ![t] = IF model_file = "absent" THEN "get" ELSE "load"]
  /\ UNCHANGED << model_file, nDownloads, nLoads, loadedPartial, seqVars >>

\* line 31: requests.get(url).content
ConcGet(t) ==
  /\ tpc[t] = "get"
  /\ \E dl \in Downloads :
       tpc' = [tpc EXCEPT ![t] = CASE dl = "ok" -> "write_ok"
                                   [] dl = "badbody" -> "write_bad"
                                   [] dl = "neterr" -> "raised"]
  /\ UNCHANGED << model_file, nDownloads, nLoads, loadedPartial, seqVars >>

\* line 31: write_bytes opens (creates, truncates) the file ...
ConcWriteBegin(t) ==
  /\ tpc[t] \in {"write_ok", "write_bad"}
  /\ tpc' = [tpc EXCEPT ![t] = IF tpc[t] = "write_ok" THEN "writing_ok"
                               ELSE "writing_bad"]
  /\ model_file' = "writing"
  /\ nDownloads' = nDownloads + 1
  /\ UNCHANGED << nLoads, loadedPartial, seqVars >>

\* ... and returns when the last byte is written
ConcWriteEnd(t) ==
  /\ Writing(t)
  /\ tpc' = [tpc EXCEPT ![t] = "load"]
  /\ model_file' = IF \E u \in Threads \ {t} : Writing(u) THEN "writing"
                   ELSE IF tpc[t] = "writing_ok" THEN "good" ELSE "corrupt"
  /\ UNCHANGED << nDownloads, nLoads, loadedPartial, seqVars >>

\* line 32: fasttext.load_model; a file that is not an intact model makes it
\* raise, except that part of a file being written may load
ConcLoad(t) ==
  /\ tpc[t] = "load"
  /\ nLoads' = nLoads + 1
  /\ loadedPartial' = (loadedPartial \/ model_file = "writing")
  /\ \E ld \in BOOLEAN :
       tpc' = [tpc EXCEPT ![t] = IF ld /\ model_file \in {"good", "writing"}
                                   THEN "done" ELSE "raised"]
  /\ UNCHANGED << model_file, nDownloads, seqVars >>

NextConc ==
  \E t \in Threads :
    \/ ConcCheck(t)
    \/ ConcGet(t)
    \/ ConcWriteBegin(t)
    \/ ConcWriteEnd(t)
    \/ ConcLoad(t)

SpecConc == InitConc /\ [][NextConc]_vars

\* ------------------------------------------------------------------
\* Properties
\* ------------------------------------------------------------------
\* Stated on their own, not through the operators of the model above.
Blank(t) == \A k \in 1..Len(t) : t[k] = WS
Native(page) == ~Blank(page.text)
Scanned(page) == Blank(page.text)
EffectiveTarget == IF target_arg = "None" THEN "English" ELSE target_arg
ExpectedScript(lang) == IF lang = "Urdu" THEN "Arabic" ELSE "Devanagari"
RequestsOf(k) == { n \in 1..Len(reqLog) : reqLog[n].page = k }
Completed == pc = "returned"
\* The state right after the extraction of page Len(all_texts).
JustExtracted == pc \in {"extract", "detect"} /\ Len(all_texts) >= 1
\* The state right after a translate call.
JustTranslated == call # NoCall

\* C1: when process_pdf runs to completion the output has as many pages as
\* the input, and output page k has page k's geometry and images and draws
\* the translation of the text extracted from page k (that text itself when
\* no request was issued for it or the request failed, else the service's
\* answer), the extracted text being page k's native text or its OCR result.
C1_PageCorrespondence ==
  Completed =>
    /\ Len(out) = Len(doc)
    /\ Len(all_texts) = Len(doc)
    /\ Len(translated_pages) = Len(doc)
    /\ \A k \in 1..Len(doc) :
         /\ out[k].rect = doc[k].rect
         /\ out[k].images = doc[k].images
         /\ out[k].text = translated_pages[k]
         /\ IF Native(doc[k]) THEN all_texts[k] = doc[k].text
                              ELSE all_texts[k] \in OcrTexts
         /\ IF \E n \in RequestsOf(k) : ~reqLog[n].failed
              THEN translated_pages[k] \in RespTexts
              ELSE translated_pages[k] = all_texts[k]

C1_Witness ==
  /\ Completed
  /\ Len(doc) >= 2
  /\ doc[1] # doc[2]
  /\ Native(doc[1]) /\ Scanned(doc[2])
  /\ out[1].text \in RespTexts
  /\ out[2].text = <<"a">>

C3_NoOpTranslate ==
  (JustTranslated /\ (call.source = call.target \/ Blank(call.text))) =>
    /\ call.result = call.text
    /\ call.requests = 0
    /\ RequestsOf(Len(translated_pages)) = {}

C3_Witness ==
  /\ JustTranslated
  /\ call.source # call.target
  /\ call.text = <<WS>>
  /\ call.result = <<WS>>
  /\ call.requests = 0

C3_WitnessSameLanguage ==
  /\ JustTranslated
  /\ call.source = call.target
  /\ ~Blank(call.text)
  /\ call.result = call.text

\* C4: the extraction of a page whose native text is not blank records that
\* text unchanged and calls neither detect_language, tess_lang nor the OCR
\* engine; so during extraction the model has been loaded at most once per
\* scanned page.
C4_NativeVerbatim ==
  /\ \A k \in 1..Len(all_texts) : Native(doc[k]) => all_texts[k] = doc[k].text
  /\ (JustExtracted /\ Native(doc[Len(all_texts)])) => ev = <<>>
  /\ pc \in {"extract", "detect"} =>
       nLoads <= Cardinality({ k \in 1..Len(all_texts) : Scanned(doc[k]) })

C4_Witness ==
  /\ JustExtracted
  /\ doc[Len(all_texts)].text = <<WS, "b">>
  /\ all_texts[Len(all_texts)] = <<WS, "b">>
  /\ ev = <<>>
  /\ nLoads = 0

\* The run was aborted by the extraction of page i.
RaisedInExtraction ==
  /\ pc = "raised"
  /\ Len(all_texts) < Len(doc)
  /\ err \in {"render", "language model", "ocr"}

\* C5 as stated: the extraction of a scanned page never raises, yields a
\* string and calls the OCR engine with the script tess_lang gives for the
\* detected language.
C5_ScannedNeverRaises ==
  /\ ~RaisedInExtraction
  /\ (JustExtracted /\ Scanned(doc[Len(all_texts)])) =>
       /\ all_texts[Len(all_texts)] \in OcrTexts
       /\ Len(ev) = 3
       /\ ev[3].op = "ocr"
       /\ ev[3].arg = ExpectedScript(ev[1].arg)

\* C5 amended: the extraction of a scanned page either aborts the run with
\* the exception of the page rendering, of the language detector or of the
\* OCR engine, or yields a string for the page; the OCR engine is never called except after
\* detect_language and tess_lang, for the same page, with the script tess_lang
\* gives for the detected language; and only scanned pages abort extraction.
C5_ScannedRoutesThroughMapper ==
  /\ \A n \in 1..Len(ev) :
       ev[n].op = "ocr" =>
         /\ n = 3
         /\ ev[1].op = "detect_language" /\ ev[2].op = "tess_lang"
         /\ ev[1].page = ev[3].page /\ ev[2].page = ev[3].page
         /\ ev[2].arg = ev[1].arg
         /\ ev[3].arg = ExpectedScript(ev[1].arg)
         /\ Scanned(doc[ev[3].page])
  /\ (JustExtracted /\ Scanned(doc[Len(all_texts)])) =>
       /\ all_texts[Len(all_texts)] \in OcrTexts
       /\ Len(ev) = 3
       /\ ev[3].op = "ocr"
       /\ ev[3].page = Len(all_texts)
  /\ RaisedInExtraction =>
       /\ Scanned(doc[i])
       /\ i = Len(all_texts) + 1
       /\ (err = "render" <=> ev = <<>>)
       /\ (err = "language model" <=> Len(ev) = 1)
       /\ (err = "ocr" <=> Len(ev) = 3)
       /\ ev # <<>> => ev[1].op = "detect_language"

C5_Witness ==
  /\ JustExtracted
  /\ Scanned(doc[Len(all_texts)])
  /\ Len(ev) = 3
  /\ ev[1].arg = "Urdu"
  /\ ev[3].arg = "Arabic"
  /\ all_texts[Len(all_texts)] = <<>>

\* C6: a fatal error leaves no file at dst_path and shows exactly one error
\* message, without success message or download button.
C6_NoOutputOnError ==
  /\ err # "" => dst_file = "absent"
  /\ (err # "" /\ pc \in {"shown", "closed"}) => ui = <<"error">>

C8_LoadedOnce == nLoads <= 1

\* C9: under concurrent first use the weight file is written at most once
\* and no invocation loads the model from a file that is being written.
C9_GuardedDownload == nDownloads <= 1 /\ ~loadedPartial

\* C10: a translate call issues at most one request, no page gets a second
\* one, and once the translation phase is over the number of requests is the
\* number of pages with a non-blank extracted text if the detected language
\* differs from the effective target (None meaning English), else zero.
C10_RequestCount ==
  /\ call.requests <= 1
  /\ \A k \in 1..Len(doc) : Cardinality(RequestsOf(k)) <= 1
  /\ pc \in {"reassemble", "save", "returned"} =>
       /\ target_lang = EffectiveTarget
       /\ Len(reqLog) =
            IF detected_lang # EffectiveTarget
              THEN Cardinality({ k \in 1..Len(all_texts) : ~Blank(all_texts[k]) })
              ELSE 0

C10_Witness ==
  /\ pc = "reassemble"
  /\ target_arg = "None"
  /\ detected_lang = "Hindi"
  /\ Len(all_texts) >= 2
  /\ Blank(all_texts[1]) /\ ~Blank(all_texts[2])
  /\ Len(reqLog) = 1
  /\ reqLog[1].page = 2
  /\ reqLog[1].failed

C10_WitnessSameLanguage ==
  /\ pc = "reassemble"
  /\ target_arg = "None"
  /\ detected_lang = "English"
  /\ \E k \in 1..Len(all_texts) : ~Blank(all_texts[k])
  /\ reqLog = <<>>

====
